---- MODULE Spec2Model ----
(***************************************************************************)
(* Model of the cleanup-scope / jump lowering of ir/irfunction.cpp:        *)
(* executeCleanup and the ScopeStack operations, acting on an explicit     *)
(* model of the LLVM function they mutate (blocks, terminators, selector   *)
(* stores, allocas).  Spec generates code with cleanup scopes, labels and  *)
(* gotos; TargetSpec generates code with cleanup scopes, loops, switches   *)
(* and one break or continue statement.                                    *)
(***************************************************************************)
EXTENDS Integers, Sequences, FiniteSets, TLC

\* Bounds of the model.
MaxBlocks == 9      \* basic blocks the function may hold
MaxDepth == 3       \* cleanup scopes active at once
NumLabels == 2      \* label identifiers of the function

Labels == 1..NumLabels

VARIABLES
    cleanupScopes,            \* ScopeStack::cleanupScopes (innermost last)
    topLevelUnresolvedGotos,  \* ScopeStack::topLevelUnresolvedGotos
    labelTargets,             \* ScopeStack::labelTargets (targetBlock 0: no entry)
    func,                     \* the llvm::Function being built
    scopebb,                  \* irs->scopebb(), the block code is emitted into
    pc,                       \* "gen", "done", "fatal", "assertSelector",
                              \* "assertCursor", "assertTarget", "ub"
    errors,                   \* locations passed to error(), in order
    muxLog,                   \* every executeCleanup call made so far
    gotos,                    \* history: every GotoJump created so far, with
                              \* the scopes active at the jump (stack), the
                              \* lowest depth reached since (low), whether a
                              \* scope was pushed or popped before its label
                              \* was defined (crossed), and the block and the
                              \* active scopes of its label's definition
    continueTargets,          \* ScopeStack::continueTargets (innermost last)
    breakTargets,             \* ScopeStack::breakTargets (innermost last)
    labelScopes               \* history: the begin blocks of the scopes active
                              \* when each label was defined

vars == <<cleanupScopes, topLevelUnresolvedGotos, labelTargets, func, scopebb,
          pc, errors, muxLog, gotos, continueTargets, breakTargets, labelScopes>>

----------------------------------------------------------------------------
\* The LLVM function: per block a terminator and the selector stores placed
\* before it; the cleanup body that leads from a begin block to its end block;
\* the selector allocas; the blocks erased from the function.

NoTerm == [kind |-> "none", sel |-> 0, dest |-> 0, cases |-> <<>>]

BranchInst(dest) == [kind |-> "br", sel |-> 0, dest |-> dest, cases |-> <<>>]

SwitchInst(sel, dest) == [kind |-> "switch", sel |-> sel, dest |-> dest, cases |-> <<>>]

NumBlocks(f) == Len(f.term)

\* llvm::BasicBlock::Create: the new block is NumBlocks(f) + 1.
CreateBlock(f) ==
    [f EXCEPT !.term = Append(@, NoTerm),
              !.stores = Append(@, <<>>),
              !.endOf = Append(@, 0)]

\* llvm::BranchInst::Create(dest, bb) / IRBuilder::CreateBr at the end of bb.
CreateBr(f, dest, bb) == [f EXCEPT !.term[bb] = BranchInst(dest)]

\* new llvm::StoreInst(val, sel, bb->getTerminator()): inserted before the
\* terminator, hence after the stores already in the block.
StoreInst(f, val, sel, bb) ==
    [f EXCEPT !.stores[bb] = Append(@, [sel |-> sel, val |-> val])]

\* SwitchInst::addCase(val, dest) on the terminator of bb.
addCase(f, bb, val, dest) ==
    [f EXCEPT !.term[bb].cases = Append(@, [val |-> val, dest |-> dest])]

\* Faulty variant: the cases of a switch are not redirected.
RetargetTermDefaultOnly(t, old, new) ==
    [t EXCEPT !.dest = IF @ = old THEN new ELSE @]

\* One terminator's operands under replaceAllUsesWith(old, new).
RetargetTerm(t, old, new) ==
    [t EXCEPT !.dest = IF @ = old THEN new ELSE @,
              !.cases = [c \in DOMAIN @ |->
                            [@[c] EXCEPT !.dest = IF @ = old THEN new ELSE @]]]

\* llvm::Value::replaceAllUsesWith: every terminator operand naming old.
replaceAllUsesWith(f, old, new) ==
    [f EXCEPT !.term = [b \in DOMAIN @ |-> RetargetTerm(@[b], old, new)]]

eraseFromParent(f, bb) == [f EXCEPT !.erased = @ \cup {bb}]

\* The blocks whose terminator has an operand naming block b.
Uses(f, b) ==
    {x \in DOMAIN f.term :
        /\ f.term[x].kind # "none"
        /\ \/ f.term[x].dest = b
           \/ \E c \in DOMAIN f.term[x].cases : f.term[x].cases[c].dest = b}

----------------------------------------------------------------------------
\* Data records.

CleanupExitTarget(t) == [branchTarget |-> t, sourceBlocks |-> <<>>]

CleanupScope(beginBlock, endBlock) ==
    [beginBlock |-> beginBlock, endBlock |-> endBlock, exitTargets |-> <<>>,
     branchSelector |-> 0, unresolvedGotos |-> <<>>]

GotoJump(loc, src, target, label) ==
    [sourceLoc |-> loc, sourceBlock |-> src, tentativeTarget |-> target,
     targetLabel |-> label]

\* ScopeStack::currentCleanupScope(): the number of active cleanup scopes.
currentCleanupScope(scopes) == Len(scopes)

\* Faulty variant: the function-level list is the current list at any depth.
currentUnresolvedGotosTop(scopes, top) == top

\* ScopeStack::currentUnresolvedGotos(), lines 258-262.
currentUnresolvedGotos(scopes, top) ==
    IF scopes = <<>> THEN top ELSE scopes[Len(scopes)].unresolvedGotos

----------------------------------------------------------------------------
\* executeCleanup.  m = [func, scopes, log, failed]; scope i is the C++
\* cleanupScopes[i], i.e. m.scopes[i + 1].

SelectorOnSingleTarget(sc) == sc.branchSelector # 0

\* Lines 31-35: the single-target path.
SingleTarget(f, sc, sourceBlock, continueWith) ==
    LET first == Len(sc.exitTargets) = 0
        ts == IF first THEN <<CleanupExitTarget(continueWith)>> ELSE sc.exitTargets
        f1 == IF first THEN CreateBr(f, continueWith, sc.endBlock) ELSE f
    IN  [func |-> f1,
         scope |-> [sc EXCEPT !.exitTargets =
                       [ts EXCEPT ![1].sourceBlocks = Append(@, sourceBlock)]]]

\* Faulty variant: the source blocks recorded before the selector existed get no store.
BackfillNothing(f, sel, v) == f

\* Faulty variant: only the first recorded source block gets the store.
BackfillFirstOnly(f, sel, v) ==
    IF v = <<>> THEN f ELSE StoreInst(f, 0, sel, Head(v))

RECURSIVE BackfillStores(_, _, _)
\* Lines 50-56: store 0 in every source block of the only exit target.
BackfillStores(f, sel, v) ==
    IF v = <<>> THEN f
    ELSE BackfillStores(StoreInst(f, 0, sel, Head(v)), sel, Tail(v))

\* Lines 40-69: allocate the selector, backfill, turn the branch into a switch.
CreateSelector(f, sc) ==
    LET sel == Len(f.allocas) + 1
        f1 == [f EXCEPT !.allocas = Append(@, sc.beginBlock)]
        f2 == BackfillStores(f1, sel, sc.exitTargets[1].sourceBlocks)
        f3 == [f2 EXCEPT !.term[sc.endBlock] =
                  SwitchInst(sel, sc.exitTargets[1].branchTarget)]
    IN  [func |-> f3, scope |-> [sc EXCEPT !.branchSelector = sel]]

\* Faulty variant: the search for a known target never finds one.
FindNothing(ts, continueWith) == 0

\* Lines 74-89: index (1-based) of the exit target already branching to
\* continueWith, 0 if there is none.
FindTarget(ts, continueWith) ==
    IF \E i \in DOMAIN ts : ts[i].branchTarget = continueWith
    THEN CHOOSE i \in DOMAIN ts :
            /\ ts[i].branchTarget = continueWith
            /\ \A j \in DOMAIN ts : ts[j].branchTarget = continueWith => i <= j
    ELSE 0

\* Faulty variant: a known target's store uses the 1-based position as selector value.
SelectTargetOffByOne(f, sc, sourceBlock, continueWith) ==
    LET k == CHOOSE i \in 0..Len(sc.exitTargets) :
                 \/ i # 0 /\ sc.exitTargets[i].branchTarget = continueWith
                 \/ i = 0 /\ \A j \in DOMAIN sc.exitTargets :
                                 sc.exitTargets[j].branchTarget # continueWith
        selectorVal == Len(sc.exitTargets)
    IN  IF k # 0
        THEN [func |-> StoreInst(f, k, sc.branchSelector, sourceBlock),
              scope |-> [sc EXCEPT !.exitTargets[k].sourceBlocks =
                                       Append(@, sourceBlock)]]
        ELSE [func |-> StoreInst(addCase(f, sc.endBlock, selectorVal, continueWith),
                                 selectorVal, sc.branchSelector, sourceBlock),
              scope |-> [sc EXCEPT !.exitTargets =
                            Append(@, [branchTarget |-> continueWith,
                                       sourceBlocks |-> <<sourceBlock>>])]]

\* Lines 71-103: the selector path, once the selector exists.
SelectTarget(f, sc, sourceBlock, continueWith) ==
    LET k == FindTarget(sc.exitTargets, continueWith)
        selectorVal == Len(sc.exitTargets)
    IN  IF k # 0
        THEN [func |-> StoreInst(f, k - 1, sc.branchSelector, sourceBlock),
              scope |-> [sc EXCEPT !.exitTargets[k].sourceBlocks =
                                       Append(@, sourceBlock)]]
        ELSE [func |-> StoreInst(addCase(f, sc.endBlock, selectorVal, continueWith),
                                 selectorVal, sc.branchSelector, sourceBlock),
              scope |-> [sc EXCEPT !.exitTargets =
                            Append(@, [branchTarget |-> continueWith,
                                       sourceBlocks |-> <<sourceBlock>>])]]

\* Faulty variant: the single-target path is taken only while there is no exit target.
executeCleanupEager(f, sc, sourceBlock, continueWith) ==
    IF Len(sc.exitTargets) = 0
    THEN [failed |-> SelectorOnSingleTarget(sc)]
         @@ SingleTarget(f, sc, sourceBlock, continueWith)
    ELSE LET s == IF sc.branchSelector = 0
                  THEN CreateSelector(f, sc)
                  ELSE [func |-> f, scope |-> sc]
         IN  [failed |-> FALSE]
             @@ SelectTarget(s.func, s.scope, sourceBlock, continueWith)

\* executeCleanup(irs, scope, sourceBlock, continueWith), lines 19-104.
\* failed: the assert of line 27 does not hold.
executeCleanup(f, sc, sourceBlock, continueWith) ==
    IF \/ Len(sc.exitTargets) = 0
       \/ /\ Len(sc.exitTargets) = 1
          /\ sc.exitTargets[1].branchTarget = continueWith
    THEN [failed |-> SelectorOnSingleTarget(sc)]
         @@ SingleTarget(f, sc, sourceBlock, continueWith)
    ELSE LET s == IF sc.branchSelector = 0
                  THEN CreateSelector(f, sc)
                  ELSE [func |-> f, scope |-> sc]
         IN  [failed |-> FALSE]
             @@ SelectTarget(s.func, s.scope, sourceBlock, continueWith)

\* One call of executeCleanup on cleanupScopes[i], logged.
\* m = [func, scopes, top, log, failed].
Multiplex(m, i, sourceBlock, continueWith, op) ==
    LET r == executeCleanup(m.func, m.scopes[i + 1], sourceBlock, continueWith)
    IN  [m EXCEPT !.func = r.func,
                  !.scopes[i + 1] = r.scope,
                  !.log = Append(@, [scope |-> m.scopes[i + 1].beginBlock,
                                     index |-> i,
                                     source |-> sourceBlock,
                                     continueWith |-> continueWith,
                                     op |-> op]),
                  !.failed = @ \/ r.failed]

----------------------------------------------------------------------------
\* ScopeStack operations on m = [func, scopes, top, log, failed].

RECURSIVE runCleanupsLoopUnchained(_, _, _, _, _)
\* Faulty variant: every scope is told to continue at the final destination.
runCleanupsLoopUnchained(m, i, targetScope, bb, continueWith) ==
    IF ~(i > targetScope) THEN m
    ELSE runCleanupsLoopUnchained(Multiplex(m, i - 1, bb, continueWith, "run"),
                                  i - 1, targetScope, bb, continueWith)

RECURSIVE runCleanupsLoop(_, _, _, _, _)
\* Lines 139-143: for (i = currentCleanupScope(); i-- > targetScope;).
runCleanupsLoop(m, i, targetScope, bb, continueWith) ==
    IF ~(i > targetScope) THEN m
    ELSE LET j == i - 1
             nextBlock == IF j > targetScope
                          THEN m.scopes[j].beginBlock   \* cleanupScopes[j - 1]
                          ELSE continueWith
         IN  runCleanupsLoop(Multiplex(m, j, bb, nextBlock, "run"),
                             j, targetScope, bb, continueWith)

\* Faulty variant: with no cleanup to run, the innermost cleanup is run.
runCleanupsOneTooMany(m, bb, targetScope, continueWith) ==
    IF m.scopes = <<>>
    THEN [m EXCEPT !.func = CreateBr(@, continueWith, bb)]
    ELSE runCleanupsLoop(
             [m EXCEPT !.func =
                 CreateBr(@, m.scopes[Len(m.scopes)].beginBlock, bb)],
             currentCleanupScope(m.scopes),
             IF targetScope = currentCleanupScope(m.scopes)
             THEN targetScope - 1 ELSE targetScope,
             bb, continueWith)

\* runCleanups(targetScope, continueWith) with irs->scopebb() = bb, lines
\* 128-143 (after the assert of line 126; needs a scope on the stack unless
\* targetScope is the current depth).
runCleanups(m, bb, targetScope, continueWith) ==
    IF targetScope = currentCleanupScope(m.scopes)
    THEN [m EXCEPT !.func = CreateBr(@, continueWith, bb)]
    ELSE runCleanupsLoop(
             [m EXCEPT !.func =
                 CreateBr(@, m.scopes[Len(m.scopes)].beginBlock, bb)],
             currentCleanupScope(m.scopes), targetScope, bb, continueWith)

RECURSIVE popGotosNoRedirect(_, _, _)
\* Faulty variant: the uses of the placeholder are not redirected to the cleanup.
popGotosNoRedirect(m, i, gs) ==
    IF gs = <<>> THEN m
    ELSE popGotosNoRedirect(
             Multiplex(m, i, Head(gs).sourceBlock, Head(gs).tentativeTarget, "pop"),
             i, Tail(gs))

RECURSIVE popGotos(_, _, _)
\* Lines 154-165: thread every goto of the list gs through cleanupScopes[i].
popGotos(m, i, gs) ==
    IF gs = <<>> THEN m
    ELSE LET tentative == Head(gs).tentativeTarget
             m1 == [m EXCEPT !.func = replaceAllUsesWith(
                                 @, tentative, m.scopes[i + 1].beginBlock)]
         IN  popGotos(Multiplex(m1, i, Head(gs).sourceBlock, tentative, "pop"),
                      i, Tail(gs))

\* Faulty variant: the scope is popped without handing its gotos to the next list.
mergeAndPopDrops(m, i) == [m EXCEPT !.scopes = SubSeq(@, 1, Len(@) - 1)]

\* Lines 168-176: merge the list of the innermost scope into the next one
\* (cleanupScopes[i - 1], or the top-level list) and pop the scope.
mergeAndPop(m, i) ==
    LET cur == currentUnresolvedGotos(m.scopes, m.top)
        m1 == IF i = 0
              THEN [m EXCEPT !.top = @ \o cur]
              ELSE [m EXCEPT !.scopes[i].unresolvedGotos = @ \o cur]
    IN  [m1 EXCEPT !.scopes = SubSeq(@, 1, Len(@) - 1)]

\* Faulty variant: only the innermost scope is popped.
popCleanupsLoopOnce(m, i, targetScope) ==
    IF ~(i > targetScope) THEN m
    ELSE mergeAndPop(
             popGotos(m, i - 1, currentUnresolvedGotos(m.scopes, m.top)), i - 1)

RECURSIVE popCleanupsLoop(_, _, _)
\* Lines 153-177: for (i = currentCleanupScope(); i-- > targetScope;).
popCleanupsLoop(m, i, targetScope) ==
    IF ~(i > targetScope) THEN m
    ELSE LET j == i - 1
             m1 == popGotos(m, j, currentUnresolvedGotos(m.scopes, m.top))
         IN  popCleanupsLoop(mergeAndPop(m1, j), j, targetScope)

\* popCleanups(targetScope), lines 150-178.
popCleanups(m, targetScope) ==
    IF targetScope = currentCleanupScope(m.scopes) THEN m
    ELSE popCleanupsLoop(m, currentCleanupScope(m.scopes), targetScope)

RECURSIVE resolveGotosSkipNext(_, _, _, _, _)
\* Faulty variant: the index advances after an erase too, skipping the next entry.
resolveGotosSkipNext(f, unresolved, i, labelName, targetBlock) ==
    IF ~(i <= Len(unresolved)) THEN [func |-> f, unresolved |-> unresolved]
    ELSE IF unresolved[i].targetLabel # labelName
         THEN resolveGotosSkipNext(f, unresolved, i + 1, labelName, targetBlock)
         ELSE resolveGotosSkipNext(
                  eraseFromParent(
                      replaceAllUsesWith(f, unresolved[i].tentativeTarget, targetBlock),
                      unresolved[i].tentativeTarget),
                  SubSeq(unresolved, 1, i - 1)
                      \o SubSeq(unresolved, i + 1, Len(unresolved)),
                  i + 1, labelName, targetBlock)

RECURSIVE resolveGotos(_, _, _, _, _)
\* Lines 208-218: scan the list from index i (1-based here); returns the
\* function and the list that remains.
resolveGotos(f, unresolved, i, labelName, targetBlock) ==
    IF ~(i <= Len(unresolved)) THEN [func |-> f, unresolved |-> unresolved]
    ELSE IF unresolved[i].targetLabel # labelName
         THEN resolveGotos(f, unresolved, i + 1, labelName, targetBlock)
         ELSE resolveGotos(
                  eraseFromParent(
                      replaceAllUsesWith(f, unresolved[i].tentativeTarget, targetBlock),
                      unresolved[i].tentativeTarget),
                  SubSeq(unresolved, 1, i - 1)
                      \o SubSeq(unresolved, i + 1, Len(unresolved)),
                  i, labelName, targetBlock)

\* Faulty variant: the function-level list is scanned whatever the depth.
scannedListTop(scopes) == 0

\* The list addLabelTarget scans and rewrites, line 207: 0 for the
\* function-level list, i for the list of scopes[i].
scannedList(scopes) == IF scopes = <<>> THEN 0 ELSE Len(scopes)

\* Faulty variant: the function-level list is scanned as well as the list
\* of the innermost scope.
addLabelTargetAndTop(m, labelName, targetBlock) ==
    LET r1 == resolveGotos(m.func, m.top, 1, labelName, targetBlock)
        m1 == [m EXCEPT !.func = r1.func, !.top = r1.unresolved]
        w == Len(m.scopes)
    IN  IF w = 0 THEN m1
        ELSE LET r2 == resolveGotos(m1.func, m1.scopes[w].unresolvedGotos, 1,
                                    labelName, targetBlock)
             IN  [m1 EXCEPT !.func = r2.func,
                            !.scopes[w].unresolvedGotos = r2.unresolved]

\* addLabelTarget's effect on the function and the lists, lines 207-218.
addLabelTarget(m, labelName, targetBlock) ==
    LET w == scannedList(m.scopes)
        unresolved == IF w = 0 THEN m.top ELSE m.scopes[w].unresolvedGotos
        r == resolveGotos(m.func, unresolved, 1, labelName, targetBlock)
    IN  IF w = 0
        THEN [m EXCEPT !.func = r.func, !.top = r.unresolved]
        ELSE [m EXCEPT !.func = r.func,
                       !.scopes[w].unresolvedGotos = r.unresolved]

\* Faulty variant: the table is cleared before the entry is made.
setLabelTargetCleared(table, labelName, targetBlock, depth) ==
    [l \in DOMAIN table |->
        IF l = labelName
        THEN [targetBlock |-> targetBlock, cleanupScope |-> depth]
        ELSE [targetBlock |-> 0, cleanupScope |-> 0]]

\* Faulty variant: the entry records one scope more than are active.
setLabelTargetDeeper(table, labelName, targetBlock, depth) ==
    [table EXCEPT ![labelName] =
        [targetBlock |-> targetBlock, cleanupScope |-> depth + 1]]

\* Line 205: labelTargets[labelName] = {targetBlock, currentCleanupScope(), 0}.
setLabelTarget(table, labelName, targetBlock, depth) ==
    [table EXCEPT ![labelName] =
        [targetBlock |-> targetBlock, cleanupScope |-> depth]]

\* Lines 230-233: the goto to a label not seen yet; the placeholder is the
\* block just created.
pushUnresolved(m, bb, loc, labelName) ==
    LET f1 == CreateBlock(m.func)
        target == NumBlocks(f1)
        g == GotoJump(loc, bb, target, labelName)
        m1 == [m EXCEPT !.func = CreateBr(f1, target, bb)]
    IN  IF m.scopes = <<>>
        THEN [m1 EXCEPT !.top = Append(@, g)]
        ELSE [m1 EXCEPT !.scopes[Len(m.scopes)].unresolvedGotos = Append(@, g)]

----------------------------------------------------------------------------
\* The state machine.

EntryBlock == 1
RetBlock == 2

Init ==
    /\ cleanupScopes = <<>>
    /\ topLevelUnresolvedGotos = <<>>
    /\ labelTargets = [l \in Labels |-> [targetBlock |-> 0, cleanupScope |-> 0]]
    /\ func = [term |-> <<NoTerm, NoTerm>>, stores |-> << <<>>, <<>> >>,
               endOf |-> <<0, 0>>, allocas |-> <<>>, erased |-> {}]
    /\ scopebb = EntryBlock
    /\ pc = "gen"
    /\ errors = <<>>
    /\ muxLog = <<>>
    /\ gotos = <<>>
    /\ continueTargets = <<>>
    /\ breakTargets = <<>>
    /\ labelScopes = [l \in Labels |-> <<>>]

Depth == currentCleanupScope(cleanupScopes)

M == [func |-> func, scopes |-> cleanupScopes, top |-> topLevelUnresolvedGotos,
      log |-> muxLog, failed |-> FALSE]

Commit(m) ==
    /\ func' = m.func
    /\ cleanupScopes' = m.scopes
    /\ topLevelUnresolvedGotos' = m.top
    /\ muxLog' = m.log
    /\ pc' = IF m.failed THEN "assertSelector" ELSE pc

\* The builder can append a terminator to the current block.
Open == pc = "gen" /\ func.term[scopebb].kind = "none"

\* Label identifiers are compared by identity only: label l is the l-th
\* distinct label the function mentions (in a goto or a definition).
Mentioned(l) ==
    \/ labelTargets[l].targetBlock # 0
    \/ \E i \in DOMAIN gotos : gotos[i].targetLabel = l

Usable(l) == IF l = 1 THEN TRUE ELSE Mentioned(l - 1)

\* The begin blocks of the scopes on the stack, outermost first.
StackBegins == [i \in 1..Len(cleanupScopes) |-> cleanupScopes[i].beginBlock]

\* pushCleanup(beginBlock, endBlock), lines 119-121, with the two blocks the
\* caller creates for the cleanup and the body that joins them.
PushCleanup ==
    /\ pc = "gen"
    /\ Depth < MaxDepth
    /\ NumBlocks(func) + 2 <= MaxBlocks
    /\ LET f2 == CreateBlock(CreateBlock(func))
           beginBlock == NumBlocks(func) + 1
           endBlock == NumBlocks(func) + 2
       IN  /\ func' = [f2 EXCEPT !.endOf[beginBlock] = endBlock]
           /\ cleanupScopes' = Append(cleanupScopes, CleanupScope(beginBlock, endBlock))
    /\ gotos' = [i \in DOMAIN gotos |->
           IF gotos[i].labelBlock = 0
           THEN [gotos[i] EXCEPT !.crossed = TRUE] ELSE gotos[i]]
    /\ UNCHANGED <<topLevelUnresolvedGotos, labelTargets, scopebb, pc, errors,
                   muxLog, continueTargets, breakTargets, labelScopes>>

\* runCleanups(targetScope, RetBlock) called with its precondition (line
\* 126) met; runAllCleanups is the case targetScope = 0.
RunCleanups(targetScope) ==
    /\ Open
    /\ targetScope <= Depth
    /\ Commit(runCleanups(M, scopebb, targetScope, RetBlock))
    /\ UNCHANGED <<labelTargets, scopebb, errors, gotos, continueTargets,
                   breakTargets, labelScopes>>

\* popCleanups(targetScope), lines 150-178; the scopes that were active when
\* a loop or switch still open was entered stay.
PopCleanups(targetScope) ==
    /\ pc = "gen"
    /\ \A i \in DOMAIN continueTargets :
          continueTargets[i].cleanupScope <= targetScope
    /\ \A i \in DOMAIN breakTargets :
          breakTargets[i].cleanupScope <= targetScope
    /\ Commit(popCleanups(M, targetScope))
    /\ gotos' = IF targetScope < Depth
                THEN [i \in DOMAIN gotos |->
                        [gotos[i] EXCEPT
                            !.crossed = IF gotos[i].labelBlock = 0 THEN TRUE ELSE @,
                            !.low = IF targetScope < @ THEN targetScope ELSE @]]
                ELSE gotos
    /\ UNCHANGED <<labelTargets, scopebb, errors, continueTargets,
                   breakTargets, labelScopes>>

\* addLabelTarget(labelName, targetBlock), lines 202-219, with the block the
\* caller creates for the label; a label is defined once in a function.
AddLabelTarget(labelName) ==
    /\ Usable(labelName)
    /\ pc = "gen"
    /\ labelTargets[labelName].targetBlock = 0
    /\ NumBlocks(func) < MaxBlocks
    /\ LET f1 == CreateBlock(func)
           targetBlock == NumBlocks(f1)
       IN  /\ labelTargets' = setLabelTarget(labelTargets, labelName,
                                             targetBlock, Depth)
           /\ Commit(addLabelTarget([M EXCEPT !.func = f1], labelName, targetBlock))
           /\ gotos' = [i \in DOMAIN gotos |->
                   IF gotos[i].targetLabel = labelName
                   THEN [gotos[i] EXCEPT !.labelBlock = targetBlock,
                                         !.labelStack = StackBegins,
                                         !.labelDirect = ~gotos[i].crossed]
                   ELSE gotos[i]]
    /\ labelScopes' = [labelScopes EXCEPT ![labelName] = StackBegins]
    /\ UNCHANGED <<scopebb, errors, continueTargets, breakTargets>>

\* jumpToLabel(loc, labelName), lines 221-234, the label being defined and
\* the assert of runCleanups holding.
JumpToLabel(labelName) ==
    /\ Open
    /\ labelTargets[labelName].targetBlock # 0
    /\ labelTargets[labelName].cleanupScope <= Depth
    /\ Commit(runCleanups(M, scopebb, labelTargets[labelName].cleanupScope,
                          labelTargets[labelName].targetBlock))
    /\ UNCHANGED <<labelTargets, scopebb, errors, gotos, continueTargets,
                   breakTargets, labelScopes>>

\* jumpToLabel to a defined label whose cursor exceeds the current depth, in
\* a build with assertions: the assert of line 126 aborts.
JumpToLabelAssert(labelName) ==
    /\ Open
    /\ labelTargets[labelName].targetBlock # 0
    /\ labelTargets[labelName].cleanupScope > Depth
    /\ pc' = "assertCursor"
    /\ UNCHANGED <<cleanupScopes, topLevelUnresolvedGotos, labelTargets, func,
                   scopebb, errors, muxLog, gotos, continueTargets,
                   breakTargets, labelScopes>>

\* The same call in a build without assertions: lines 135-143 run with a
\* loop that does not iterate; with no scope on the stack, line 135 reads
\* back() of an empty vector.
JumpToLabelNoAssert(labelName) ==
    /\ Open
    /\ labelTargets[labelName].targetBlock # 0
    /\ labelTargets[labelName].cleanupScope > Depth
    /\ IF Depth > 0
       THEN Commit(runCleanups(M, scopebb, labelTargets[labelName].cleanupScope,
                               labelTargets[labelName].targetBlock))
       ELSE /\ pc' = "ub"
            /\ UNCHANGED <<cleanupScopes, topLevelUnresolvedGotos, func, muxLog>>
    /\ UNCHANGED <<labelTargets, scopebb, errors, gotos, continueTargets,
                   breakTargets, labelScopes>>

\* jumpToLabel(loc, labelName), lines 230-233, the label not being defined;
\* loc is the location of the n-th goto of the function.
JumpToUnresolved(labelName) ==
    /\ Usable(labelName)
    /\ Open
    /\ labelTargets[labelName].targetBlock = 0
    /\ NumBlocks(func) < MaxBlocks
    /\ Commit(pushUnresolved(M, scopebb, Len(gotos) + 1, labelName))
    /\ gotos' = Append(gotos,
           [sourceLoc |-> Len(gotos) + 1, sourceBlock |-> scopebb,
            tentativeTarget |-> NumBlocks(func) + 1, targetLabel |-> labelName,
            stack |-> StackBegins, low |-> Depth, crossed |-> FALSE,
            labelBlock |-> 0, labelStack |-> <<>>, labelDirect |-> FALSE])
    /\ UNCHANGED <<labelTargets, scopebb, errors, continueTargets,
                   breakTargets, labelScopes>>

\* The caller moves the builder to a new block after a terminator.
NewScopeBB ==
    /\ pc = "gen"
    /\ func.term[scopebb].kind # "none"
    /\ NumBlocks(func) < MaxBlocks
    /\ func' = CreateBlock(func)
    /\ scopebb' = NumBlocks(func) + 1
    /\ UNCHANGED <<cleanupScopes, topLevelUnresolvedGotos, labelTargets, pc,
                   errors, muxLog, gotos, continueTargets, breakTargets,
                   labelScopes>>

\* Faulty variant: one error per awaited label, at its first goto.
reportedLocsPerLabel(top) ==
    LET keep == SelectSeq([i \in 1..Len(top) |-> i],
                          LAMBDA i : \A j \in 1..(i - 1) :
                                        top[j].targetLabel # top[i].targetLabel)
    IN  [n \in 1..Len(keep) |-> top[keep[n]].sourceLoc]

\* The locations error() is called with, lines 109-114.
reportedLocs(top) == [i \in 1..Len(top) |-> top[i].sourceLoc]

\* ~ScopeStack(), lines 107-117, at the end of the function's code
\* generation, every cleanup scope having been popped.
Destroy ==
    /\ pc = "gen"
    /\ Depth = 0
    /\ IF topLevelUnresolvedGotos # <<>>
       THEN /\ errors' = errors \o reportedLocs(topLevelUnresolvedGotos)
            /\ pc' = "fatal"
       ELSE /\ errors' = errors
            /\ pc' = "done"
    /\ UNCHANGED <<cleanupScopes, topLevelUnresolvedGotos, labelTargets, func,
                   scopebb, muxLog, gotos, continueTargets, breakTargets,
                   labelScopes>>

Next ==
    \/ PushCleanup
    \/ \E k \in 0..MaxDepth : RunCleanups(k)
    \/ \E k \in 0..MaxDepth : PopCleanups(k)
    \/ \E l \in Labels : AddLabelTarget(l)
    \/ \E l \in Labels : JumpToLabel(l)
    \/ \E l \in Labels : JumpToLabelAssert(l)
    \/ \E l \in Labels : JumpToLabelNoAssert(l)
    \/ \E l \in Labels : JumpToUnresolved(l)
    \/ NewScopeBB
    \/ Destroy

Spec == Init /\ [][Next]_vars

----------------------------------------------------------------------------
\* Loop and switch targets: the continue and break stacks, lines 180-200, and
\* the jumps to them, lines 236-256.

MaxTargets == 3      \* entries the two target stacks may hold together
NumStatements == 2   \* loop and switch statements of the function

Statements == 1..NumStatements

\* JumpTarget {targetBlock, cleanupScope, targetStatement}.
JumpTarget(targetBlock, cleanupScope, targetStatement) ==
    [targetBlock |-> targetBlock, cleanupScope |-> cleanupScope,
     targetStatement |-> targetStatement]

\* The two stacks as one value t = [continueTargets, breakTargets].
T == [continueTargets |-> continueTargets, breakTargets |-> breakTargets]

\* Faulty variant: the loop's entries record no cleanup depth.
pushLoopTargetNoCursor(t, depth, loopStatement, continueTarget, breakTarget) ==
    [continueTargets |->
        Append(t.continueTargets, JumpTarget(continueTarget, 0, loopStatement)),
     breakTargets |->
        Append(t.breakTargets, JumpTarget(breakTarget, 0, loopStatement))]

\* pushLoopTarget(loopStatement, continueTarget, breakTarget), lines 180-185,
\* called with depth scopes active.
pushLoopTarget(t, depth, loopStatement, continueTarget, breakTarget) ==
    [continueTargets |->
        Append(t.continueTargets, JumpTarget(continueTarget, depth, loopStatement)),
     breakTargets |->
        Append(t.breakTargets, JumpTarget(breakTarget, depth, loopStatement))]

\* popLoopTarget(), lines 187-190 (both stacks non-empty).
popLoopTarget(t) ==
    [continueTargets |-> SubSeq(t.continueTargets, 1, Len(t.continueTargets) - 1),
     breakTargets |-> SubSeq(t.breakTargets, 1, Len(t.breakTargets) - 1)]

\* pushBreakTarget(switchStatement, targetBlock), lines 192-196.
pushBreakTarget(t, depth, switchStatement, targetBlock) ==
    [t EXCEPT !.breakTargets =
        Append(@, JumpTarget(targetBlock, depth, switchStatement))]

\* popBreakTarget(), lines 198-200 (the break stack non-empty).
popBreakTarget(t) ==
    [t EXCEPT !.breakTargets = SubSeq(@, 1, Len(@) - 1)]

\* Faulty variant: the search runs from the outermost entry inwards.
findStatementForward(targets, it, s) ==
    IF \E i \in DOMAIN targets : targets[i].targetStatement = s
    THEN CHOOSE i \in DOMAIN targets :
            /\ targets[i].targetStatement = s
            /\ \A j \in 1..(i - 1) : targets[j].targetStatement # s
    ELSE 0

RECURSIVE findStatement(_, _, _)
\* Lines 239-247: the reverse iteration from entry it (1-based; rbegin is
\* Len(targets)) to the first entry whose statement is s; 0 at rend.
findStatement(targets, it, s) ==
    IF it = 0 THEN 0
    ELSE IF targets[it].targetStatement = s THEN it
         ELSE findStatement(targets, it - 1, s)

\* jumpToStatement(targets, s) when an entry matches, lines 239-246.
jumpToStatement(m, bb, targets, s) ==
    LET it == findStatement(targets, Len(targets), s)
    IN  runCleanups(m, bb, targets[it].cleanupScope, targets[it].targetBlock)

\* Line 254: targets.back().
closestTarget(targets) == targets[Len(targets)]

\* jumpToClosest(targets) on a non-empty stack, lines 254-255.
jumpToClosest(m, bb, targets) ==
    LET t == closestTarget(targets)
    IN  runCleanups(m, bb, t.cleanupScope, t.targetBlock)

\* The stack a continue ("continue") or a break ("break") statement passes.
Kinds == {"continue", "break"}

Targets(kind) == IF kind = "continue" THEN continueTargets ELSE breakTargets

CommitTargets(t) ==
    /\ continueTargets' = t.continueTargets
    /\ breakTargets' = t.breakTargets

\* Statements are compared by identity only: statement s is registered only
\* when statement s - 1 is the target of a registered entry.
Registered(s) ==
    \E kind \in Kinds, i \in 1..MaxTargets :
        i <= Len(Targets(kind)) /\ Targets(kind)[i].targetStatement = s

UsableStatement(s) == IF s = 1 THEN TRUE ELSE Registered(s - 1)

\* The innermost break entry is the one pushLoopTarget pushed together with
\* the innermost continue entry (the loop's two blocks are created together).
LoopInnermost ==
    /\ continueTargets # <<>>
    /\ breakTargets # <<>>
    /\ breakTargets[Len(breakTargets)].targetBlock
          = continueTargets[Len(continueTargets)].targetBlock + 1

\* pushLoopTarget with the two blocks the caller creates for the loop.
PushLoopTarget(loopStatement) ==
    /\ pc = "gen"
    /\ UsableStatement(loopStatement)
    /\ Len(continueTargets) + Len(breakTargets) + 2 <= MaxTargets
    /\ NumBlocks(func) + 2 <= MaxBlocks
    /\ func' = CreateBlock(CreateBlock(func))
    /\ CommitTargets(pushLoopTarget(T, Depth, loopStatement,
                                     NumBlocks(func) + 1, NumBlocks(func) + 2))
    /\ UNCHANGED <<cleanupScopes, topLevelUnresolvedGotos, labelTargets, scopebb,
                   pc, errors, muxLog, gotos, labelScopes>>

\* popLoopTarget at the end of the innermost loop, the cleanup scopes opened
\* in its body having been popped.
PopLoopTarget ==
    /\ pc = "gen"
    /\ LoopInnermost
    /\ continueTargets[Len(continueTargets)].cleanupScope = Depth
    /\ CommitTargets(popLoopTarget(T))
    /\ UNCHANGED <<cleanupScopes, topLevelUnresolvedGotos, labelTargets, func,
                   scopebb, pc, errors, muxLog, gotos, labelScopes>>

\* pushBreakTarget with the block the caller creates for the switch's end.
PushBreakTarget(switchStatement) ==
    /\ pc = "gen"
    /\ UsableStatement(switchStatement)
    /\ Len(continueTargets) + Len(breakTargets) < MaxTargets
    /\ NumBlocks(func) < MaxBlocks
    /\ func' = CreateBlock(func)
    /\ CommitTargets(pushBreakTarget(T, Depth, switchStatement,
                                      NumBlocks(func) + 1))
    /\ UNCHANGED <<cleanupScopes, topLevelUnresolvedGotos, labelTargets, scopebb,
                   pc, errors, muxLog, gotos, labelScopes>>

\* popBreakTarget at the end of the innermost switch, the cleanup scopes
\* opened in its body having been popped.
PopBreakTarget ==
    /\ pc = "gen"
    /\ breakTargets # <<>>
    /\ ~LoopInnermost
    /\ breakTargets[Len(breakTargets)].cleanupScope = Depth
    /\ CommitTargets(popBreakTarget(T))
    /\ UNCHANGED <<cleanupScopes, topLevelUnresolvedGotos, labelTargets, func,
                   scopebb, pc, errors, muxLog, gotos, labelScopes>>

\* Whether jumpToStatement(Targets(kind), s) finds an entry.
Found(kind, s) == findStatement(Targets(kind), Len(Targets(kind)), s) # 0

\* jumpToStatement(targets, s), lines 236-247, an entry matching and the
\* assert of runCleanups (line 126) holding for its cursor.
JumpToStatement(kind, s) ==
    /\ Open
    /\ Found(kind, s)
    /\ Targets(kind)[findStatement(Targets(kind), Len(Targets(kind)), s)]
            .cleanupScope <= Depth
    /\ Commit(jumpToStatement(M, scopebb, Targets(kind), s))
    /\ UNCHANGED <<labelTargets, scopebb, errors, gotos, continueTargets,
                   breakTargets, labelScopes>>

\* jumpToStatement with no matching entry, in a build with assertions: the
\* assert of line 248 aborts.
JumpToStatementAssert(kind, s) ==
    /\ Open
    /\ ~Found(kind, s)
    /\ pc' = "assertTarget"
    /\ UNCHANGED <<cleanupScopes, topLevelUnresolvedGotos, labelTargets, func,
                   scopebb, errors, muxLog, gotos, continueTargets,
                   breakTargets, labelScopes>>

\* The same call in a build without assertions: the loop ends and the
\* function returns.
JumpToStatementNoAssert(kind, s) ==
    /\ Open
    /\ ~Found(kind, s)
    /\ UNCHANGED vars

\* jumpToClosest(targets), lines 251-256, the stack non-empty and the assert
\* of runCleanups holding for the cursor of its last entry.
JumpToClosest(kind) ==
    /\ Open
    /\ Targets(kind) # <<>>
    /\ closestTarget(Targets(kind)).cleanupScope <= Depth
    /\ Commit(jumpToClosest(M, scopebb, Targets(kind)))
    /\ UNCHANGED <<labelTargets, scopebb, errors, gotos, continueTargets,
                   breakTargets, labelScopes>>

\* jumpToClosest on an empty stack, in a build with assertions: the assert
\* of line 252 aborts.
JumpToClosestAssert(kind) ==
    /\ Open
    /\ Targets(kind) = <<>>
    /\ pc' = "assertTarget"
    /\ UNCHANGED <<cleanupScopes, topLevelUnresolvedGotos, labelTargets, func,
                   scopebb, errors, muxLog, gotos, continueTargets,
                   breakTargets, labelScopes>>

\* The same call in a build without assertions: line 254 reads back() of an
\* empty vector.
JumpToClosestNoAssert(kind) ==
    /\ Open
    /\ Targets(kind) = <<>>
    /\ pc' = "ub"
    /\ UNCHANGED <<cleanupScopes, topLevelUnresolvedGotos, labelTargets, func,
                   scopebb, errors, muxLog, gotos, continueTargets,
                   breakTargets, labelScopes>>

\* Code generation of a function with loops, switches and cleanup scopes
\* up to and after the break or continue statement that ends its entry block.
TargetNext ==
    \/ PushCleanup
    \/ \E k \in 0..MaxDepth : PopCleanups(k)
    \/ \E s \in Statements : PushLoopTarget(s)
    \/ PopLoopTarget
    \/ \E s \in Statements : PushBreakTarget(s)
    \/ PopBreakTarget
    \/ \E kind \in Kinds : JumpToClosest(kind)
    \/ \E kind \in Kinds : JumpToClosestAssert(kind)
    \/ \E kind \in Kinds : JumpToClosestNoAssert(kind)
    \/ \E kind \in Kinds, s \in Statements : JumpToStatement(kind, s)
    \/ \E kind \in Kinds, s \in Statements : JumpToStatementAssert(kind, s)
    \/ \E kind \in Kinds, s \in Statements : JumpToStatementNoAssert(kind, s)

TargetSpec == Init /\ [][TargetNext]_vars

----------------------------------------------------------------------------
\* What the generated code does: the value a selector holds when control
\* leaves block src (the last store to it in src; -1 if src stores none), the
\* block an exit block branches to for control that came from src (0 if the
\* switch reads a selector src never stored), and the route control takes from
\* src: the cleanup begin blocks it enters, then the block it ends at.

SelVal(f, src, sel) ==
    LET ss == SelectSeq(f.stores[src], LAMBDA st : st.sel = sel)
    IN  IF ss = <<>> THEN -1 ELSE ss[Len(ss)].val

ExitDest(f, endBlock, src) ==
    LET t == f.term[endBlock]
        v == SelVal(f, src, t.sel)
    IN  CASE t.kind = "none" -> 0
          [] t.kind = "br" -> t.dest
          [] t.kind = "switch" ->
                IF v = -1 THEN 0
                ELSE IF \E c \in DOMAIN t.cases : t.cases[c].val = v
                     THEN t.cases[CHOOSE c \in DOMAIN t.cases :
                                    /\ t.cases[c].val = v
                                    /\ \A c2 \in DOMAIN t.cases :
                                          t.cases[c2].val = v => c <= c2].dest
                     ELSE t.dest

RECURSIVE Walk(_, _, _, _)
Walk(f, src, b, fuel) ==
    IF fuel = 0 \/ b = 0 THEN <<b>>
    ELSE IF f.endOf[b] # 0
         THEN <<b>> \o Walk(f, src, ExitDest(f, f.endOf[b], src), fuel - 1)
         ELSE <<b>>

Route(f, src) == Walk(f, src, f.term[src].dest, NumBlocks(f))

Reverse(q) == [i \in 1..Len(q) |-> q[Len(q) + 1 - i]]

IsPrefix(p, q) == Len(p) <= Len(q) /\ SubSeq(q, 1, Len(p)) = p

Range(q) == {q[i] : i \in DOMAIN q}

\* The continuations requested of the scope whose begin block is b, in the
\* order of the executeCleanup calls.
Requested(b) ==
    LET calls == SelectSeq(muxLog, LAMBDA c : c.scope = b)
    IN  [i \in 1..Len(calls) |-> calls[i].continueWith]

\* The distinct elements of q, in order of first occurrence.
Distinct(q) ==
    LET keep == {i \in DOMAIN q : \A j \in 1..(i - 1) : q[j] # q[i]}
        nth(n) == CHOOSE i \in keep : Cardinality({j \in keep : j < i}) = n - 1
    IN  [n \in 1..Cardinality(keep) |-> q[nth(n)]]

BranchTargets(sc) == [j \in DOMAIN sc.exitTargets |-> sc.exitTargets[j].branchTarget]

----------------------------------------------------------------------------
\* C1: for every cleanup scope on the stack and every source block recorded
\* in one of its exit targets, control that leaves the source block with the
\* selector values stored there and reaches the scope's exit block branches
\* to exactly that exit target's destination, with or without a selector.
C1_RecordedSourcesReachTheirTarget ==
    \A i \in DOMAIN cleanupScopes :
        \A j \in DOMAIN cleanupScopes[i].exitTargets :
            \A n \in DOMAIN cleanupScopes[i].exitTargets[j].sourceBlocks :
                ExitDest(func, cleanupScopes[i].endBlock,
                         cleanupScopes[i].exitTargets[j].sourceBlocks[n])
                    = cleanupScopes[i].exitTargets[j].branchTarget

\* A scope that got its selector after two source blocks had been recorded
\* against its first target, and has a source block on a later target.
C1_Witness ==
    \E i \in DOMAIN cleanupScopes :
        /\ cleanupScopes[i].branchSelector # 0
        /\ Len(cleanupScopes[i].exitTargets) >= 2
        /\ Len(cleanupScopes[i].exitTargets[1].sourceBlocks) >= 1
        /\ Len(cleanupScopes[i].exitTargets[2].sourceBlocks) >= 1
        /\ \E x \in DOMAIN muxLog :
              /\ muxLog[x].scope = cleanupScopes[i].beginBlock
              /\ muxLog[x].continueWith = cleanupScopes[i].exitTargets[1].branchTarget
              /\ \E y \in 1..(x - 1) :
                    /\ muxLog[y].scope = cleanupScopes[i].beginBlock
                    /\ muxLog[y].continueWith
                          = cleanupScopes[i].exitTargets[2].branchTarget

\* The executeCleanup calls made by the step.
NewCalls == SubSeq(muxLog', Len(muxLog) + 1, Len(muxLog'))

\* C4 (state part): a scope with exactly one exit target ends in an
\* unconditional branch to it.
C4_SingleTargetBranches ==
    \A i \in DOMAIN cleanupScopes :
        Len(cleanupScopes[i].exitTargets) = 1 =>
            func.term[cleanupScopes[i].endBlock]
                = BranchInst(cleanupScopes[i].exitTargets[1].branchTarget)

\* C4 (step part): for a scope with one exit target X, a step whose
\* executeCleanup calls request another destination leaves the exit block
\* with a switch on a newly allocated selector, default X, and a store of 0
\* to it in every source block recorded against X before the step; any other
\* step leaves the branch to X.
C4_SecondDestinationStep ==
    \A i \in DOMAIN cleanupScopes :
        Len(cleanupScopes[i].exitTargets) = 1 =>
            LET sc == cleanupScopes[i]
                X == sc.exitTargets[1].branchTarget
                t == func'.term[sc.endBlock]
            IN  IF \E c \in DOMAIN NewCalls :
                      /\ NewCalls[c].scope = sc.beginBlock
                      /\ NewCalls[c].continueWith # X
                THEN /\ t.kind = "switch"
                     /\ t.dest = X
                     /\ t.sel \in DOMAIN func'.allocas
                     /\ t.sel \notin DOMAIN func.allocas
                     /\ \A n \in DOMAIN sc.exitTargets[1].sourceBlocks :
                           SelVal(func', sc.exitTargets[1].sourceBlocks[n], t.sel) = 0
                ELSE t = BranchInst(X)

\* C4: scopes with one exit target end in an unconditional branch to it, and
\* the first request of a second destination turns it into a switch on the
\* selector with the original destination as default and backfills a store of
\* 0 in every source block recorded before.
C4_SwitchIntroduction ==
    []C4_SingleTargetBranches /\ [][C4_SecondDestinationStep]_vars

\* A scope with a switch whose first two requests were for the same
\* destination, from two source blocks.
C4_Witness ==
    \E i \in DOMAIN cleanupScopes :
        /\ func.term[cleanupScopes[i].endBlock].kind = "switch"
        /\ Len(cleanupScopes[i].exitTargets[1].sourceBlocks) >= 2
        /\ Len(Requested(cleanupScopes[i].beginBlock)) >= 3
        /\ Requested(cleanupScopes[i].beginBlock)[1]
              = Requested(cleanupScopes[i].beginBlock)[2]

\* C5 (state part): the exit targets of a scope are the distinct requested
\* continuations in order of first request, the switch maps case value j to
\* the (j+1)-th of them with the first as default, and every recorded source
\* block stores the index of its target.
C5_IndicesInOrderOfFirstRequest ==
    \A i \in DOMAIN cleanupScopes :
        LET sc == cleanupScopes[i]
            t == func.term[sc.endBlock]
        IN  /\ BranchTargets(sc) = Distinct(Requested(sc.beginBlock))
            /\ \A j, k \in DOMAIN sc.exitTargets :
                  sc.exitTargets[j].branchTarget = sc.exitTargets[k].branchTarget
                      => j = k
            /\ Len(sc.exitTargets) >= 2 =>
                  /\ t.dest = sc.exitTargets[1].branchTarget
                  /\ t.cases = [j \in 1..(Len(sc.exitTargets) - 1) |->
                                   [val |-> j,
                                    dest |-> sc.exitTargets[j + 1].branchTarget]]
                  /\ \A j \in DOMAIN sc.exitTargets :
                        \A n \in DOMAIN sc.exitTargets[j].sourceBlocks :
                            SelVal(func, sc.exitTargets[j].sourceBlocks[n],
                                   sc.branchSelector) = j - 1

\* C5 (step part): a scope that stays on the stack keeps the destination of
\* every index it has assigned.
C5_IndicesStable ==
    \A i \in DOMAIN cleanupScopes :
        (i \in DOMAIN cleanupScopes'
            /\ cleanupScopes'[i].beginBlock = cleanupScopes[i].beginBlock)
        => IsPrefix(BranchTargets(cleanupScopes[i]), BranchTargets(cleanupScopes'[i]))

\* C5: selector indices are assigned in order of first occurrence of each
\* distinct destination, a repeated destination reuses its index and adds no
\* exit target or case, indices are never remapped, and the destinations of
\* a scope are pairwise distinct.
C5_SelectorIndices ==
    []C5_IndicesInOrderOfFirstRequest /\ [][C5_IndicesStable]_vars

\* A scope with three exit targets one of which was requested again.
C5_Witness ==
    \E i \in DOMAIN cleanupScopes :
        /\ Len(cleanupScopes[i].exitTargets) = 3
        /\ Len(Requested(cleanupScopes[i].beginBlock)) >= 4

\* C6: a scope on the stack has a selector iff it has at least two exit
\* targets; a selector is allocated at most once per scope; a scope whose
\* requested continuations are all the same block has no selector and the
\* assert of the single-target path never fails; a scope with two distinct
\* requested continuations has a switch with exactly those two destinations.
C6_SelectorIffTwoTargets ==
    /\ pc # "assertSelector"
    /\ \A a, b \in DOMAIN func.allocas : func.allocas[a] = func.allocas[b] => a = b
    /\ \A i \in DOMAIN cleanupScopes :
          LET sc == cleanupScopes[i]
              t == func.term[sc.endBlock]
              req == Range(Requested(sc.beginBlock))
          IN  /\ (sc.branchSelector # 0) <=> (Len(sc.exitTargets) >= 2)
              /\ sc.branchSelector # 0 =>
                    /\ sc.branchSelector \in DOMAIN func.allocas
                    /\ func.allocas[sc.branchSelector] = sc.beginBlock
              /\ Cardinality(req) <= 1 =>
                    /\ sc.branchSelector = 0
                    /\ t.kind # "switch"
                    /\ \A a \in DOMAIN func.allocas : func.allocas[a] # sc.beginBlock
              /\ Cardinality(req) = 2 =>
                    /\ t.kind = "switch"
                    /\ Len(t.cases) = 1
                    /\ {t.dest, t.cases[1].dest} = req

\* Three nested scopes, each left twice towards the same single exit target,
\* none with a selector.
C6_Witness ==
    /\ Len(cleanupScopes) = 3
    /\ \A i \in DOMAIN cleanupScopes :
          /\ Len(cleanupScopes[i].exitTargets) = 1
          /\ Len(cleanupScopes[i].exitTargets[1].sourceBlocks) >= 2
          /\ cleanupScopes[i].branchSelector = 0

\* The calls of executeCleanup whose source block is src, in order.
CallsFrom(src) == SelectSeq(muxLog, LAMBDA c : c.source = src)

\* The gotos of every unresolved list, function-level list first.
RECURSIVE Flatten(_)
Flatten(scopes) ==
    IF scopes = <<>> THEN <<>>
    ELSE Flatten(SubSeq(scopes, 1, Len(scopes) - 1))
             \o scopes[Len(scopes)].unresolvedGotos

AllUnresolved == topLevelUnresolvedGotos \o Flatten(cleanupScopes)

\* The scopes a goto leaves before it reaches a label defined with n scopes
\* active, innermost first.
ExitedScopes(g, n) == Reverse(SubSeq(g.stack, n + 1, Len(g.stack)))

\* C2: a forward goto issued with scopes s_0..s_(d-1) active, whose label is
\* defined with s_0..s_(k-1) active (after s_(d-1)..s_k were closed), runs
\* from its source block through the begin blocks of s_(d-1), ..., s_k in
\* that order, each once, and ends at the label's block.
C2_ForwardGotoThreaded ==
    \A n \in DOMAIN gotos :
        (gotos[n].labelBlock # 0 /\ IsPrefix(gotos[n].labelStack, gotos[n].stack))
        => Route(func, gotos[n].sourceBlock)
              = ExitedScopes(gotos[n], Len(gotos[n].labelStack))
                    \o <<gotos[n].labelBlock>>

\* A goto issued two scopes deep, its label defined outside both, the inner
\* scope having been left by another jump as well.
C2_Witness ==
    \E n \in DOMAIN gotos :
        /\ gotos[n].labelBlock # 0
        /\ Len(gotos[n].stack) = 2
        /\ gotos[n].labelStack = <<>>
        /\ \E x \in DOMAIN muxLog :
              /\ muxLog[x].scope = gotos[n].stack[2]
              /\ muxLog[x].op = "run"

\* What runCleanups(k, B) called at depth d > k must have done: see C3.
RanCleanups(k, B) ==
    /\ func'.term[scopebb] = BranchInst(cleanupScopes[Depth].beginBlock)
    /\ NewCalls = [n \in 1..(Depth - k) |->
            [scope |-> cleanupScopes[Depth - n + 1].beginBlock,
             index |-> Depth - n,
             source |-> scopebb,
             continueWith |-> IF Depth - n > k
                              THEN cleanupScopes[Depth - n].beginBlock
                              ELSE B,
             op |-> "run"]]
    /\ Route(func', scopebb)
          = [n \in 1..(Depth - k) |-> cleanupScopes[Depth - n + 1].beginBlock]
                \o <<B>>
    /\ Len(cleanupScopes') = Depth

\* C3 (step): runCleanups(k, B) at depth d > k (called directly with the
\* return block, or by jumpToLabel with a defined label's cursor and block)
\* branches the current block to the begin block of scope d-1, calls
\* executeCleanup once per scope d-1, ..., k with the current block as source
\* and the begin block of the next scope (B for scope k) as continuation, so
\* that the route from the current block runs the d-k cleanups innermost
\* first and ends at B; the depth is unchanged.
C3_RunCleanupsStep ==
    /\ \A k \in 0..(Depth - 1) : RunCleanups(k) => RanCleanups(k, RetBlock)
    /\ \A l \in Labels :
          (labelTargets[l].cleanupScope < Depth /\ JumpToLabel(l))
          => RanCleanups(labelTargets[l].cleanupScope, labelTargets[l].targetBlock)

C3_RunCleanupsChains == [][C3_RunCleanupsStep]_vars

\* One runCleanups call went through three scopes to the return block.
C3_Witness ==
    \E x \in DOMAIN muxLog :
        /\ x + 2 \in DOMAIN muxLog
        /\ \A y \in x..(x + 2) : muxLog[y].op = "run" /\ muxLog[y].source = muxLog[x].source
        /\ muxLog[x].index = 2 /\ muxLog[x + 1].index = 1 /\ muxLog[x + 2].index = 0
        /\ muxLog[x + 2].continueWith = RetBlock
        /\ Len(Route(func, muxLog[x].source)) = 4

\* C7: for a goto issued with scopes s_0..s_(d-1) active and still
\* unresolved, the stack having been popped down to depth k since,
\* executeCleanup was called for it (source: its source block, continuation:
\* its placeholder) exactly once on each of s_(d-1), ..., s_k and on no
\* other scope.
C7_OneEdgePerPoppedScope ==
    \A n \in DOMAIN gotos :
        gotos[n].tentativeTarget \notin func.erased =>
            CallsFrom(gotos[n].sourceBlock)
                = [x \in 1..(Len(gotos[n].stack) - gotos[n].low) |->
                      [scope |-> gotos[n].stack[Len(gotos[n].stack) - x + 1],
                       index |-> Len(gotos[n].stack) - x,
                       source |-> gotos[n].sourceBlock,
                       continueWith |-> gotos[n].tentativeTarget,
                       op |-> "pop"]]

\* An unresolved goto issued three scopes deep, all three now popped.
C7_Witness ==
    \E n \in DOMAIN gotos :
        /\ gotos[n].tentativeTarget \notin func.erased
        /\ Len(gotos[n].stack) = 3
        /\ gotos[n].low = 0
        /\ Len(CallsFrom(gotos[n].sourceBlock)) = 3

\* C8: a goto to an undefined label whose label is then defined with no
\* cleanup scope pushed or popped in between has its placeholder erased and
\* unused, its source block branching to the label's block, and is in no
\* unresolved list.
C8_DirectResolution ==
    \A n \in DOMAIN gotos :
        (gotos[n].labelBlock # 0 /\ gotos[n].labelDirect) =>
            /\ gotos[n].tentativeTarget \in func.erased
            /\ Uses(func, gotos[n].tentativeTarget) = {}
            /\ func.term[gotos[n].sourceBlock] = BranchInst(gotos[n].labelBlock)
            /\ \A x \in DOMAIN AllUnresolved :
                  AllUnresolved[x].tentativeTarget # gotos[n].tentativeTarget

\* Two gotos awaited the same label inside a cleanup scope and were resolved
\* by its definition.
C8_Witness ==
    \E n, x \in DOMAIN gotos :
        /\ n # x
        /\ gotos[n].targetLabel = gotos[x].targetLabel
        /\ gotos[n].labelDirect /\ gotos[x].labelDirect
        /\ Len(gotos[n].stack) >= 1
        /\ gotos[n].tentativeTarget \in func.erased

\* How often location loc was reported.
Reported(loc) == Cardinality({x \in DOMAIN errors : errors[x] = loc})

\* C9: the end-of-function check reports one error per goto of the
\* function-level list and then aborts, and reports nothing and does not
\* abort when that list is empty; with all scopes popped, every goto still
\* unresolved (in particular every goto to a label never defined) is reported
\* exactly once and no resolved goto is reported.
C9_EndOfFunctionCheck ==
    /\ pc \notin {"done", "fatal"} => errors = <<>>
    /\ pc = "done" => errors = <<>> /\ topLevelUnresolvedGotos = <<>>
    /\ pc = "fatal" =>
          /\ topLevelUnresolvedGotos # <<>>
          /\ Len(errors) = Len(topLevelUnresolvedGotos)
          /\ \A x \in DOMAIN errors : errors[x] = topLevelUnresolvedGotos[x].sourceLoc
    /\ (pc \in {"done", "fatal"} /\ Depth = 0) =>
          \A n \in DOMAIN gotos :
              /\ gotos[n].labelBlock = 0 => Reported(gotos[n].sourceLoc) = 1
              /\ Reported(gotos[n].sourceLoc)
                    = IF gotos[n].tentativeTarget \in func.erased THEN 0 ELSE 1

\* The function ended with two gotos to the same undefined label, issued
\* inside cleanup scopes, reported as two errors.
C9_Witness ==
    /\ pc = "fatal"
    /\ Depth = 0
    /\ Len(errors) = 2
    /\ \E n, x \in DOMAIN gotos :
          /\ n # x
          /\ gotos[n].targetLabel = gotos[x].targetLabel
          /\ gotos[n].labelBlock = 0
          /\ Len(gotos[n].stack) >= 1

\* C10 as stated: when the function ends with all scopes popped and every
\* label that is the target of a goto was defined, the function-level
\* unresolved list is empty and nothing was reported.
C10_AllLabelsDefinedNoDiagnostics ==
    (/\ pc \in {"done", "fatal"}
     /\ Depth = 0
     /\ \A n \in DOMAIN gotos : labelTargets[gotos[n].targetLabel].targetBlock # 0)
    => (pc = "done" /\ topLevelUnresolvedGotos = <<>> /\ errors = <<>>)

\* C10 amended: when the function ends and the label of every forward goto
\* was defined while the active cleanup scopes were all scopes already
\* active at the goto (the label is not inside a cleanup scope that does not
\* enclose the goto), the function-level unresolved list is empty and
\* nothing was reported.
C10_EnclosingLabelsNoDiagnostics ==
    (/\ pc \in {"done", "fatal"}
     /\ \A n \in DOMAIN gotos :
           /\ gotos[n].labelBlock # 0
           /\ IsPrefix(gotos[n].labelStack, gotos[n].stack))
    => (pc = "done" /\ topLevelUnresolvedGotos = <<>> /\ errors = <<>>)

\* The function ended without diagnostics after a forward goto that left a
\* cleanup scope on its way to a label and another resolved inside a scope.
C10_Witness ==
    /\ pc = "done"
    /\ \A n \in DOMAIN gotos :
          gotos[n].labelBlock # 0 /\ IsPrefix(gotos[n].labelStack, gotos[n].stack)
    /\ \E n, x \in DOMAIN gotos :
          /\ Len(gotos[n].stack) > Len(gotos[n].labelStack)
          /\ Len(gotos[x].labelStack) >= 1

\* What a call that only branches the current block to B does: see C11.
OnlyBranches(B) ==
    /\ func' = [func EXCEPT !.term[scopebb] = BranchInst(B)]
    /\ cleanupScopes' = cleanupScopes
    /\ topLevelUnresolvedGotos' = topLevelUnresolvedGotos
    /\ labelTargets' = labelTargets
    /\ continueTargets' = continueTargets
    /\ breakTargets' = breakTargets
    /\ muxLog' = muxLog
    /\ pc' = pc

\* C11 (step): runCleanups(k, B) with k the current depth (called directly
\* with the return block, or by jumpToLabel for a label whose cursor is the
\* current depth) makes the current block branch to B and changes nothing
\* else of the function; no scope changes (exit targets, source blocks,
\* selector, unresolved gotos), no scope is pushed or popped, executeCleanup
\* is not called, and the function-level list, the label table and the
\* target stacks are unchanged.
C11_DirectBranchStep ==
    /\ RunCleanups(Depth) => OnlyBranches(RetBlock)
    /\ \A l \in Labels :
          (labelTargets[l].cleanupScope = Depth /\ JumpToLabel(l))
          => OnlyBranches(labelTargets[l].targetBlock)

C11_DirectBranchOnly == [][C11_DirectBranchStep]_vars

\* A block created while a scope still on the stack was active branches
\* straight to the return block, that scope having exit targets, and an
\* unresolved goto being pending.
C11_Witness ==
    \E b \in 1..NumBlocks(func), i \in DOMAIN cleanupScopes :
        /\ func.term[b] = BranchInst(RetBlock)
        /\ \A c \in 1..NumBlocks(func) : func.endOf[c] # b
        /\ \A x \in DOMAIN muxLog : muxLog[x].source # b
        /\ cleanupScopes[i].beginBlock < b
        /\ cleanupScopes[i].exitTargets # <<>>
        /\ AllUnresolved # <<>>

\* In how many places of the unresolved lists the goto of location loc is.
Occurrences(loc) ==
    Cardinality({x \in DOMAIN AllUnresolved : AllUnresolved[x].sourceLoc = loc})

\* C12: every goto issued for a label not yet defined is, until
\* addLabelTarget resolves it (erasing its placeholder), in exactly one
\* place of exactly one list (the list of a scope on the stack or the
\* function-level list), and in none afterwards; the lists hold nothing but
\* these gotos, unaltered.
C12_ExactlyOneList ==
    /\ \A n \in DOMAIN gotos :
          Occurrences(gotos[n].sourceLoc)
              = IF gotos[n].tentativeTarget \in func.erased THEN 0 ELSE 1
    /\ \A x \in DOMAIN AllUnresolved :
          \E n \in DOMAIN gotos :
              AllUnresolved[x] = GotoJump(gotos[n].sourceLoc, gotos[n].sourceBlock,
                                          gotos[n].tentativeTarget,
                                          gotos[n].targetLabel)

\* Unresolved gotos are in the function-level list and in the list of a
\* scope, the latter handed down to that scope by popCleanups.
C12_Witness ==
    /\ topLevelUnresolvedGotos # <<>>
    /\ \E n \in DOMAIN gotos :
          /\ gotos[n].tentativeTarget \notin func.erased
          /\ 0 < gotos[n].low
          /\ gotos[n].low < Len(gotos[n].stack)

\* The destinations of a terminator.
Dests(t) ==
    IF t.kind = "none" THEN {}
    ELSE {t.dest} \cup {t.cases[c].dest : c \in DOMAIN t.cases}

\* Goto n left at least two nested cleanup scopes on its way to its label,
\* which was defined outside them, in scopes that enclose the goto.
CrossedTwo(n) ==
    /\ gotos[n].labelBlock # 0
    /\ IsPrefix(gotos[n].labelStack, gotos[n].stack)
    /\ Len(gotos[n].stack) >= Len(gotos[n].labelStack) + 2

\* C13 as stated: once the label of such a goto is defined, the exit block
\* of every scope the goto left has the label's block as a destination.
C13_BothExitsNameLabelBlock ==
    \A n \in DOMAIN gotos :
        CrossedTwo(n) =>
            \A j \in (Len(gotos[n].labelStack) + 1)..Len(gotos[n].stack) :
                gotos[n].labelBlock
                    \in Dests(func.term[func.endOf[gotos[n].stack[j]]])

\* C13 amended: once the label of such a goto is defined, the exit block of
\* the outermost scope the goto left has the label's block as a destination,
\* and the exit block of every other scope it left has as a destination the
\* entry block of the next enclosing scope and not the label's block; each
\* of these scopes was asked once it was popped to continue at the goto's
\* placeholder for the goto's source block, and its exit block, a switch if
\* the scope has other destinations, takes that destination for control
\* coming from the source block.
C13_ExitsChainToLabelBlock ==
    \A n \in DOMAIN gotos :
        CrossedTwo(n) =>
            \A j \in (Len(gotos[n].labelStack) + 1)..Len(gotos[n].stack) :
                LET end == func.endOf[gotos[n].stack[j]]
                    outermost == j = Len(gotos[n].labelStack) + 1
                    next == IF outermost THEN gotos[n].labelBlock
                            ELSE gotos[n].stack[j - 1]
                IN  /\ next \in Dests(func.term[end])
                    /\ ~outermost => gotos[n].labelBlock \notin Dests(func.term[end])
                    /\ ExitDest(func, end, gotos[n].sourceBlock) = next
                    /\ \E x \in DOMAIN muxLog :
                          muxLog[x] = [scope |-> gotos[n].stack[j],
                                       index |-> j - 1,
                                       source |-> gotos[n].sourceBlock,
                                       continueWith |-> gotos[n].tentativeTarget,
                                       op |-> "pop"]

\* A goto left two nested scopes, the inner of which had another
\* destination and so ends in a switch, before its label was defined.
C13_Witness ==
    \E n \in DOMAIN gotos :
        /\ CrossedTwo(n)
        /\ func.term[func.endOf[gotos[n].stack[Len(gotos[n].stack)]]].kind = "switch"

\* What runCleanups(k, B) called with k at most the depth must have done:
\* see C3 and C11.
UnwindsTo(k, B) == IF k = Depth THEN OnlyBranches(B) ELSE RanCleanups(k, B)

\* The entries of a target stack registered for statement s.
Matches(targets, s) == {i \in DOMAIN targets : targets[i].targetStatement = s}

\* The most recently pushed of them.
Innermost(targets, s) ==
    CHOOSE i \in Matches(targets, s) : \A j \in Matches(targets, s) : j <= i

\* The call changed nothing but the position of the program.
NothingDone ==
    /\ func' = func
    /\ cleanupScopes' = cleanupScopes
    /\ topLevelUnresolvedGotos' = topLevelUnresolvedGotos
    /\ muxLog' = muxLog
    /\ continueTargets' = continueTargets
    /\ breakTargets' = breakTargets
    /\ labelTargets' = labelTargets

\* C14 (step): jumpToStatement(targets, s) on a stack with an entry
\* registered for s unwinds as runCleanups(c, B) does, c and B being the
\* cursor and the block of the most recently pushed of these entries; on a
\* stack with no such entry it fails the assertion of line 248 (in a build
\* with assertions), emits no branch, calls executeCleanup on no scope and
\* changes no scope, list or stack.
C14_JumpToStatementStep ==
    \A kind \in Kinds, s \in Statements :
        /\ JumpToStatement(kind, s) =>
              /\ Matches(Targets(kind), s) # {}
              /\ UnwindsTo(
                    Targets(kind)[Innermost(Targets(kind), s)].cleanupScope,
                    Targets(kind)[Innermost(Targets(kind), s)].targetBlock)
        /\ JumpToStatementAssert(kind, s) =>
              /\ Matches(Targets(kind), s) = {}
              /\ pc' = "assertTarget"
              /\ NothingDone

C14_JumpToStatement == [][C14_JumpToStatementStep]_vars

\* A labeled break failed in a function with a loop and a cleanup scope
\* open, no entry of the break stack being registered for its statement;
\* nothing was emitted into the current block.
C14_Witness ==
    /\ pc = "assertTarget"
    /\ continueTargets # <<>>
    /\ breakTargets # <<>>
    /\ Depth >= 1
    /\ func.term[scopebb].kind = "none"
    /\ muxLog = <<>>

\* Also reached: a labeled break took the more recent of two entries
\* registered for its statement, below a third entry, and ran a cleanup.
C14_InnermostTaken ==
    /\ Len(breakTargets) = 3
    /\ breakTargets[1].targetStatement = breakTargets[2].targetStatement
    /\ breakTargets[3].targetStatement # breakTargets[2].targetStatement
    /\ Len(Route(func, EntryBlock)) >= 2
    /\ Route(func, EntryBlock)[Len(Route(func, EntryBlock))]
          = breakTargets[2].targetBlock

\* Stack q is stack p with entry e pushed.
Pushed(p, q, e) == q = Append(p, e)

\* Stack q is stack p without its most recent entry.
Popped(p, q) == p # <<>> /\ q = SubSeq(p, 1, Len(p) - 1)

\* C15 (step): pushLoopTarget(s, ...) pushes one entry for s with the
\* current cleanup depth on the continue stack and one on the break stack;
\* pushBreakTarget(s, ...) pushes one such entry on the break stack only;
\* popLoopTarget removes the most recent entry of both stacks and
\* popBreakTarget that of the break stack only; no step alters an entry
\* below.  jumpToClosest(targets) on a non-empty stack unwinds as
\* runCleanups(c, B) does, c and B being the cursor and the block of the
\* most recent entry (for a continue, the innermost loop, whatever switches
\* were entered since; for a break, the innermost loop or switch); on an
\* empty stack it fails the assertion of line 252 (in a build with
\* assertions) and changes nothing.
C15_TargetStacksStep ==
    /\ \A s \in Statements :
          /\ PushLoopTarget(s) =>
                /\ \E b \in 1..NumBlocks(func') :
                      Pushed(continueTargets, continueTargets', JumpTarget(b, Depth, s))
                /\ \E b \in 1..NumBlocks(func') :
                      Pushed(breakTargets, breakTargets', JumpTarget(b, Depth, s))
          /\ PushBreakTarget(s) =>
                /\ \E b \in 1..NumBlocks(func') :
                      Pushed(breakTargets, breakTargets', JumpTarget(b, Depth, s))
                /\ continueTargets' = continueTargets
    /\ PopLoopTarget =>
          /\ Popped(continueTargets, continueTargets')
          /\ Popped(breakTargets, breakTargets')
    /\ PopBreakTarget =>
          /\ Popped(breakTargets, breakTargets')
          /\ continueTargets' = continueTargets
    /\ \A kind \in Kinds :
          /\ IsPrefix(Targets(kind), Targets(kind)')
                \/ IsPrefix(Targets(kind)', Targets(kind))
          /\ JumpToClosest(kind) =>
                /\ Targets(kind) # <<>>
                /\ UnwindsTo(Targets(kind)[Len(Targets(kind))].cleanupScope,
                             Targets(kind)[Len(Targets(kind))].targetBlock)
          /\ JumpToClosestAssert(kind) =>
                /\ Targets(kind) = <<>>
                /\ pc' = "assertTarget"
                /\ NothingDone

C15_TargetStacks == [][C15_TargetStacksStep]_vars

\* A continue inside a switch inside a cleanup scope inside a loop: the
\* entry block runs the cleanup and reaches the loop's continue block, the
\* loop having been registered outside the scope.
C15_Witness ==
    /\ Len(continueTargets) = 1
    /\ Len(breakTargets) = 2
    /\ continueTargets[1].cleanupScope = 0
    /\ breakTargets[2].cleanupScope = 1
    /\ Depth = 1
    /\ Route(func, EntryBlock)
          = <<cleanupScopes[1].beginBlock, continueTargets[1].targetBlock>>

\* C16 (step): addLabelTarget(l, B) makes the entry of l {B, current depth},
\* and no step (a later addLabelTarget for another label, popCleanups,
\* pushCleanup, a jump, the end of the function) removes or alters the entry
\* of a label already defined; each label is defined once.
C16_LabelEntryStep ==
    \A l \in Labels :
        /\ AddLabelTarget(l) =>
              labelTargets'[l] = [targetBlock |-> NumBlocks(func) + 1,
                                  cleanupScope |-> Depth]
        /\ labelTargets[l].targetBlock # 0 => labelTargets'[l] = labelTargets[l]

\* C16 (state): the cursor of a defined label is the number of scopes that
\* were active at its definition.
C16_CursorOfDefinition ==
    \A l \in Labels :
        labelTargets[l].targetBlock # 0
        => labelTargets[l].cleanupScope = Len(labelScopes[l])

C16_LabelEntriesPermanent == []C16_CursorOfDefinition /\ [][C16_LabelEntryStep]_vars

\* A label defined inside a cleanup scope keeps its entry after the scope
\* was popped, another label was defined and a goto to it was resolved.
C16_Witness ==
    /\ Depth = 0
    /\ \E l, k \in Labels :
          /\ labelTargets[l].targetBlock # 0
          /\ labelTargets[l].cleanupScope = 1
          /\ labelTargets[k].targetBlock > labelTargets[l].targetBlock
          /\ \E n \in DOMAIN gotos : gotos[n].labelBlock = labelTargets[k].targetBlock

\* C17 (step): addLabelTarget(l, B) with d scopes active removes from the
\* unresolved list of scope d-1 (the function-level list if d = 0) the
\* gotos awaiting l and keeps its other gotos in their order; the other
\* fields of that scope, every other scope and, if d > 0, the
\* function-level list are unchanged, whatever gotos they hold; no scope is
\* pushed or popped.
C17_AddLabelTargetStep ==
    \A l \in Labels :
        AddLabelTarget(l) =>
            /\ Len(cleanupScopes') = Depth
            /\ \A i \in 1..(Depth - 1) : cleanupScopes'[i] = cleanupScopes[i]
            /\ IF Depth = 0
               THEN topLevelUnresolvedGotos'
                      = SelectSeq(topLevelUnresolvedGotos,
                                  LAMBDA g : g.targetLabel # l)
               ELSE /\ topLevelUnresolvedGotos' = topLevelUnresolvedGotos
                    /\ cleanupScopes'[Depth]
                          = [cleanupScopes[Depth] EXCEPT !.unresolvedGotos =
                                SelectSeq(@, LAMBDA g : g.targetLabel # l)]

C17_OnlyCurrentListScanned == [][C17_AddLabelTargetStep]_vars

\* A label was just defined inside a cleanup scope whose list holds a goto
\* awaiting another label, while the function-level list holds a goto
\* awaiting the label defined.
C17_Witness ==
    /\ Depth >= 1
    /\ \E l \in Labels :
          /\ labelTargets[l].targetBlock = NumBlocks(func)
          /\ \E x \in DOMAIN topLevelUnresolvedGotos :
                topLevelUnresolvedGotos[x].targetLabel = l
          /\ \E x \in DOMAIN cleanupScopes[Depth].unresolvedGotos :
                cleanupScopes[Depth].unresolvedGotos[x].targetLabel # l

\* C18 (state): popCleanups(k) with d scopes active changes nothing if
\* k >= d.
C18_NoOpAtOrAboveDepth ==
    \A k \in Depth..MaxDepth : popCleanups(M, k) = M

\* C18 (step): popCleanups(k) with d > k scopes active leaves the k
\* outermost scopes on the stack; the scopes 0..k-2 are unchanged, scope k-1
\* keeps its entry and exit blocks, exit targets and selector, the exit
\* blocks of the remaining scopes keep their terminators, and the
\* unresolved list of scope k-1 (the function-level list if k = 0) is its
\* previous content followed by the lists of the popped scopes k, ..., d-1
\* in that order; if k > 0 the function-level list is unchanged.
C18_PopCleanupsStep ==
    Len(cleanupScopes') < Depth =>
        \A k \in 0..(Depth - 1) :
            PopCleanups(k) =>
                LET popped == Flatten(SubSeq(cleanupScopes, k + 1, Depth))
                IN  /\ Len(cleanupScopes') = k
                    /\ \A i \in 1..(k - 1) : cleanupScopes'[i] = cleanupScopes[i]
                    /\ \A i \in 1..k :
                          func'.term[cleanupScopes[i].endBlock]
                              = func.term[cleanupScopes[i].endBlock]
                    /\ IF k = 0
                       THEN topLevelUnresolvedGotos'
                              = topLevelUnresolvedGotos \o popped
                       ELSE /\ topLevelUnresolvedGotos' = topLevelUnresolvedGotos
                            /\ cleanupScopes'[k]
                                  = [cleanupScopes[k] EXCEPT
                                        !.unresolvedGotos = @ \o popped]

C18_PopCleanupsFrame == []C18_NoOpAtOrAboveDepth /\ [][C18_PopCleanupsStep]_vars

\* A goto issued three scopes deep is in the list of the outermost scope,
\* the two inner scopes having been popped.
C18_Witness ==
    /\ Depth = 1
    /\ \E n \in DOMAIN gotos :
          /\ Len(gotos[n].stack) = 3
          /\ gotos[n].low = 1
          /\ \E x \in DOMAIN cleanupScopes[1].unresolvedGotos :
                cleanupScopes[1].unresolvedGotos[x].sourceLoc = gotos[n].sourceLoc

\* The scopes that were active when label l was defined are all still
\* active, as the outermost scopes of the stack.
Enclosing(l) == IsPrefix(labelScopes[l], StackBegins)

C19_EnclosingCursorWithinDepth ==
    \A l \in Labels :
        (labelTargets[l].targetBlock # 0 /\ Enclosing(l))
        => labelTargets[l].cleanupScope <= Depth

\* C19 amended (step): a jumpToLabel to such a label does not fail the
\* assertion and unwinds to the label's cursor and block; the assertion
\* fails only for a label one of whose defining scopes was popped.
C19_EnclosingJumpStep ==
    \A l \in Labels :
        /\ JumpToLabelAssert(l) => ~Enclosing(l)
        /\ (Enclosing(l) /\ JumpToLabel(l))
              => UnwindsTo(labelTargets[l].cleanupScope, labelTargets[l].targetBlock)

C20_ForwardRejected ==
    \A n \in DOMAIN gotos :
        (gotos[n].labelBlock # 0 /\ ~IsPrefix(gotos[n].labelStack, gotos[n].stack))
        => /\ gotos[n].tentativeTarget \notin func.erased
           /\ gotos[n].labelBlock \notin Range(Route(func, gotos[n].sourceBlock))
           /\ Occurrences(gotos[n].sourceLoc) = 1
           /\ pc # "done"
           /\ (pc = "fatal" => Reported(gotos[n].sourceLoc) = 1)

\* C20 (goto after the label): a jumpToLabel to a label defined inside a
\* cleanup scope that is not active at the jump is not lowered: no step is
\* the accepted runCleanups call (assertion of line 126 passed) to such a
\* label.
C20_BackwardRejectedStep ==
    \A l \in Labels :
        (labelTargets[l].targetBlock # 0 /\ ~Enclosing(l)) => ~JumpToLabel(l)

\* C20 as stated: a goto into a cleanup scope that does not enclose the
\* jump site is rejected, whether it comes before or after the label.
C20_GotoIntoScopeRejected ==
    []C20_ForwardRejected /\ [][C20_BackwardRejectedStep]_vars

\* A block created inside the only active cleanup scope branches straight
\* to the block of a label defined inside a scope that was popped before
\* this one was pushed, and code generation goes on.
C20_Witness ==
    /\ pc = "gen"
    /\ Depth = 1
    /\ \E l \in Labels :
          /\ labelTargets[l].targetBlock # 0
          /\ labelScopes[l] # <<>>
          /\ labelScopes[l][1] < cleanupScopes[1].beginBlock
          /\ scopebb > cleanupScopes[1].beginBlock
          /\ \A n \in DOMAIN gotos : gotos[n].sourceBlock # scopebb
          /\ func.term[scopebb] = BranchInst(labelTargets[l].targetBlock)

====
